---- MODULE Spec2Model ----
(***************************************************************************)
(* Model of the tjarita backend (src/server.js): the JWT middleware, the   *)
(* two protected routes GET /api/articles and POST /api/summarize, and the *)
(* Gemini client summarizeWithGemini.  One request is followed from its    *)
(* receipt to its response; the server keeps no state between requests.    *)
(* The summarize-batch operation, which server.js does not contain, is     *)
(* modelled from the design document (sections 4.3 and 5), each of its     *)
(* items settled by summarizeWithGemini.  jwt.verify and axios are library *)
(* code, modelled from their contracts.                                    *)
(*                                                                         *)
(* JavaScript values are modelled as follows.  A string that the code      *)
(* slices or trims is a sequence of one-character strings.  A string that  *)
(* the code only passes on or tests for truthiness is a TLA+ string, with  *)
(* Null for undefined/null.  An optional object is a sequence of length 0  *)
(* (absent) or 1 (present).                                                *)
(***************************************************************************)
EXTENDS Integers, Sequences, FiniteSets, TLC

\* ------------------------------------------------------------ bounds
\* Longest on-demand text of the short-input specification.
MaxTextLen == 2
\* Longest generated text the generative backend returns.
MaxSummaryLen == 2
\* How many characters beyond the cap the longest long input has.
MaxExtra == 2
\* Latest clock value at which a request is verified.
MaxClock == 2
\* Most articles in one news backend reply.
MaxArticles == 2
\* Most articles handed to the batch operation.
MaxBatchInput == 6

\* ------------------------------------------------- program constants
\* textToSummarize.slice(0, 20000)
MaxChars == 20000
\* axios.post(..., { timeout: 25000 })
GeminiTimeoutMs == 25000
\* axios.get(..., { timeout: 10000 })
NewsTimeoutMs == 10000
\* params.pageSize
PageSize == 10

Null == "<null>"

Min(a, b) == IF a < b THEN a ELSE b

\* JavaScript truthiness of a string-or-null value.
Falsy(s) == s = Null \/ s = ""

\* a || b on string-or-null values.
OrElse(a, b) == IF Falsy(a) THEN b ELSE a

\* ------------------------------------------------------------ strings
Space == " "

\* String.prototype.trim on a sequence of characters.
RECURSIVE TrimLeft(_)
TrimLeft(s) ==
    IF Len(s) > 0 /\ Head(s) = Space THEN TrimLeft(Tail(s)) ELSE s

RECURSIVE TrimRight(_)
TrimRight(s) ==
    IF Len(s) > 0 /\ s[Len(s)] = Space
    THEN TrimRight(SubSeq(s, 1, Len(s) - 1))
    ELSE s

Trim(s) == TrimRight(TrimLeft(s))

\* SliceText with the cap left out.
SliceTextNoCap(text) == text

\* textToSummarize.slice(0, 20000)
SliceText(text) == SubSeq(text, 1, Min(Len(text), MaxChars))

\* All sequences over alphabet A of length at most n.
SeqsUpTo(A, n) == UNION {[1..k -> A] : k \in 0..n}

\* ---------------------------------------------------- Gemini request
PromptPrefix ==
    <<"Buat ringkasan singkat sekitar 1-2 kalimat dalam bahasa Indonesia dari teks berita berikut:\n\n">>

Quote == "\""

\* requestBody.contents[0].parts[0].text: the template around ${text}.
PromptOf(text) == PromptPrefix \o <<Quote>> \o text \o <<Quote>>

\* The POST summarizeWithGemini issues.
GeminiCall(text) ==
    [api |-> "gemini", prompt |-> PromptOf(text), country |-> Null,
     category |-> Null, pageSize |-> 0, timeout |-> GeminiTimeoutMs]

\* -------------------------------------------------- Gemini responses
FinishReasons == {Null, "STOP", "SAFETY", "MAX_TOKENS"}

SummaryChars == {"a", Space}

\* parts[0].text: absent, or a string
GenTexts == {<<>>} \cup {<<t>> : t \in SeqsUpTo(SummaryChars, MaxSummaryLen)}

\* candidates[0].content: absent; present without parts; or with parts[0]
Contents ==
    {<<>>}
    \cup {<<[parts |-> <<>>]>>}
    \cup {<<[parts |-> <<[text |-> t]>>]>> : t \in GenTexts}

Candidates == [content : Contents, finishReason : FinishReasons]

\* response.data of a 2xx reply: absent; without candidates; or with one
GeminiData ==
    {<<>>}
    \cup {<<[candidates |-> <<>>]>>}
    \cup {<<[candidates |-> <<c>>]>> : c \in Candidates}

\* What axios.post yields.  kind "ok": a 2xx reply with data.  kind "http":
\* a reply outside 2xx, which axios throws with error.response set.  kind
\* "timeout": error.code ECONNABORTED.  kind "network": any other transport
\* failure, no response.
GeminiOk == [kind : {"ok"}, data : GeminiData, status : {200},
             statusText : {"OK"}, errMessage : {Null},
             bodyFinishReason : {Null}, code : {Null}, message : {Null}]

GeminiHttp == [kind : {"http"}, data : {<<>>}, status : {400, 404, 429, 500},
               statusText : {"", "Status Text"},
               errMessage : {Null, "", "upstream message"},
               bodyFinishReason : {Null, "SAFETY", "MAX_TOKENS"},
               code : {"ERR_BAD_RESPONSE"},
               message : {"Request failed"}]

GeminiTimeout == [kind : {"timeout"}, data : {<<>>}, status : {0},
                  statusText : {Null}, errMessage : {Null},
                  bodyFinishReason : {Null}, code : {"ECONNABORTED"},
                  message : {"timeout of 25000ms exceeded"}]

GeminiNetwork == [kind : {"network"}, data : {<<>>}, status : {0},
                  statusText : {Null}, errMessage : {Null},
                  bodyFinishReason : {Null}, code : {"ECONNREFUSED", Null},
                  message : {"connect ECONNREFUSED", ""}]

GeminiOutcomes == GeminiOk \cup GeminiHttp \cup GeminiTimeout \cup GeminiNetwork

\* response.data?.candidates?.[0]
FirstCandidate(data) ==
    IF Len(data) = 0 THEN <<>>
    ELSE IF Len(data[1].candidates) = 0 THEN <<>>
    ELSE <<data[1].candidates[1]>>

\* response.data?.candidates?.[0]?.content?.parts?.[0]?.text
TextOf(data) ==
    LET c == FirstCandidate(data) IN
    IF Len(c) = 0 THEN <<>>
    ELSE IF Len(c[1].content) = 0 THEN <<>>
    ELSE IF Len(c[1].content[1].parts) = 0 THEN <<>>
    ELSE c[1].content[1].parts[1].text

\* response.data?.candidates?.[0]?.finishReason
FinishReasonOf(data) ==
    LET c == FirstCandidate(data) IN
    IF Len(c) = 0 THEN Null ELSE c[1].finishReason

\* Truthiness of the optional text: present and not the empty string.
TextTruthy(t) == Len(t) = 1 /\ Len(t[1]) > 0

SafetyMsg == "Ringkasan diblokir karena alasan keamanan oleh Gemini API."
NoTextMsg == "Tidak ada konten teks yang dihasilkan atau format respons tidak sesuai dari Gemini API."
QuotaMsg == "Kuota Gemini API telah tercapai."
TimeoutMsg == "Koneksi ke Gemini API timeout"
DefaultGeminiMsg == "Gagal meringkas dengan Gemini API."
NoKeyMsg == "GEMINI_API_KEY tidak dikonfigurasi."
WrapPrefix == "Gagal meringkas: "

\* The error object the catch block sees.
ThrownError(msg) ==
    [hasResponse |-> FALSE, status |-> 0, statusText |-> Null,
     errMessage |-> Null, code |-> Null, message |-> msg]

AxiosError(o) ==
    [hasResponse |-> (o.kind = "http"), status |-> o.status,
     statusText |-> o.statusText, errMessage |-> o.errMessage,
     code |-> o.code, message |-> o.message]

\* CatchMessage with the 429 override left out.
CatchMessageNo429(error) ==
    IF error.hasResponse
    THEN OrElse(error.errMessage, OrElse(error.statusText, "Error dari Gemini API"))
    ELSE IF error.code = "ECONNABORTED" THEN TimeoutMsg
    ELSE OrElse(error.message, DefaultGeminiMsg)

\* The catch block of summarizeWithGemini: the errorMessage it computes.
CatchMessage(error) ==
    IF error.hasResponse
    THEN IF error.status = 429 THEN QuotaMsg
         ELSE OrElse(error.errMessage,
                     OrElse(error.statusText, "Error dari Gemini API"))
    ELSE IF error.code = "ECONNABORTED" THEN TimeoutMsg
    ELSE OrElse(error.message, DefaultGeminiMsg)

Resolved(summary) == [ok |-> TRUE, summary |-> summary, message |-> <<>>]

Rejected(message) == [ok |-> FALSE, summary |-> <<>>, message |-> message]

\* summarizeWithGemini after its await: the promise's settlement for
\* outcome o of axios.post.
SummarizeSettle(o) ==
    IF o.kind = "ok"
    THEN IF TextTruthy(TextOf(o.data))
         THEN Resolved(Trim(TextOf(o.data)[1]))
         ELSE IF FinishReasonOf(o.data) = "SAFETY"
              THEN Rejected(<<WrapPrefix, CatchMessage(ThrownError(SafetyMsg))>>)
              ELSE Rejected(<<WrapPrefix, CatchMessage(ThrownError(NoTextMsg))>>)
    ELSE Rejected(<<WrapPrefix, CatchMessage(AxiosError(o))>>)

\* ------------------------------------------------------ news backend
\* One record of newsResponse.data.articles.  source is the optional
\* object article.source.
NewsArticles ==
    [title : {Null, "Title"}, content : {Null, "", "Content"},
     description : {Null, "Description"}, url : {"https://n/1"},
     urlToImage : {"https://n/1.png"}, source : {<<[name |-> "Reuters"]>>},
     publishedAt : {"2025-01-01"}]
    \cup
    {[title |-> "Title", content |-> "Content", description |-> Null,
      url |-> "https://n/2", urlToImage |-> Null, source |-> <<>>,
      publishedAt |-> "2025-01-02"]}

\* What axios.get yields.  kind "ok": a 2xx reply, whose data may lack the
\* articles array.  kind "http": a reply outside 2xx with error.response
\* set, whose data may be null.  "timeout" and "network": no response.
NewsOk == [kind : {"ok"}, hasArticles : BOOLEAN,
           articles : SeqsUpTo(NewsArticles, MaxArticles),
           totalResults : {38}, status : {200}, hasData : {TRUE},
           dataMessage : {Null}, message : {Null}]

NewsHttp == [kind : {"http"}, hasArticles : {FALSE}, articles : {<<>>},
             totalResults : {0}, status : {400, 401, 429, 500},
             hasData : BOOLEAN, dataMessage : {Null, "upstream message"},
             message : {"Request failed"}]

NewsFail == [kind : {"timeout", "network"}, hasArticles : {FALSE},
             articles : {<<>>}, totalResults : {0}, status : {0},
             hasData : {FALSE}, dataMessage : {Null},
             message : {"transport failure"}]

NewsOutcomes ==
    {o \in NewsOk : o.hasArticles \/ o.articles = <<>>}
    \cup {o \in NewsHttp : o.hasData \/ o.dataMessage = Null}
    \cup NewsFail

\* article.source?.name || 'Unknown'
SourceName(article) ==
    IF Len(article.source) = 0 THEN "Unknown"
    ELSE OrElse(article.source[1].name, "Unknown")

\* The callback of newsResponse.data.articles.map.
DisplayArticle(article) ==
    [id |-> article.url, title |-> article.title,
     source |-> SourceName(article), url |-> article.url,
     image |-> OrElse(article.urlToImage, Null),
     description |-> article.description, content |-> article.content,
     publishedAt |-> article.publishedAt]

\* newsResponse.data.articles.map(...)
ArticlesToDisplay(articles) ==
    [i \in 1..Len(articles) |-> DisplayArticle(articles[i])]

\* req.query.country || req.user.country || 'us': the token payload holds
\* userId and username only, so req.user.country is undefined.
CountryParam(query) == OrElse(query.country, OrElse(Null, "us"))

\* req.query.category || 'business'
CategoryParam(query) == OrElse(query.category, "business")

\* The GET the articles route issues.
NewsCall(query) ==
    [api |-> "news", prompt |-> <<>>, country |-> CountryParam(query),
     category |-> CategoryParam(query), pageSize |-> PageSize,
     timeout |-> NewsTimeoutMs]

GenericNewsMsg == "Gagal mengambil artikel."
NewsQuotaMsg == "Error dari NewsAPI (unauthorized/quota)"

\* The catch block of the articles route dereferences
\* error.response.data.message when the status is 401 or 429.
NewsCatchThrows(o) ==
    o.kind = "http" /\ o.status \in {401, 429} /\ ~o.hasData

\* The errorMessage the catch block of the articles route computes.
NewsCatchMessage(o) ==
    IF o.kind = "http" /\ o.status \in {401, 429}
    THEN OrElse(o.dataMessage, NewsQuotaMsg)
    ELSE GenericNewsMsg

\* ------------------------------------------------------------- state
VARIABLES
    cfg,        \* which of NEWS_API_KEY, GEMINI_API_KEY, JWT_SECRET are set
    pc,         \* where the request is
    req,        \* the request: route, authorization header, query, body
    reqUser,    \* req.user: absent, or the verified token's payload
    res,        \* the response; status 0 while none was sent
    calls,      \* the outbound calls issued for this request, in order
    geminiReply, \* what axios.post yielded, once it has
    newsReply,  \* what axios.get yielded, once it has
    batch       \* the summarize-batch operation's state

vars == <<cfg, pc, req, reqUser, res, calls, geminiReply, newsReply, batch>>

requestVars == <<cfg, pc, req, reqUser, res, calls, geminiReply, newsReply>>

ArticlesRoute == "GET /api/articles"
SummarizeRoute == "POST /api/summarize"

\* One space-separated part of the Authorization header.  raw "jwt" is a
\* well-formed token signed by sig and issued at clock value iat.
Word(w) == [raw |-> w, sig |-> Null, iat |-> 0, userId |-> 0, username |-> Null]

Jwt(sig, iat) ==
    [raw |-> "jwt", sig |-> sig, iat |-> iat, userId |-> 7, username |-> "ani"]

\* jwt.sign(..., { expiresIn: '1h' }), the clock counting hours
TokenTtlHours == 1

NoHeader == [present |-> FALSE, parts |-> <<>>]

Header(parts) == [present |-> TRUE, parts |-> parts]

\* The Authorization headers a client sends at clock value now: none, the
\* empty string, a scheme alone, a scheme and an empty token, garbage, a
\* token alone, and tokens issued up to now by the server or by someone else.
AuthHeaders(now) ==
    {NoHeader, Header(<<Word("")>>), Header(<<Word("Bearer")>>),
     Header(<<Word("Bearer"), Word("")>>),
     Header(<<Word("Bearer"), Word("garbage")>>),
     Header(<<Jwt("server", now)>>)}
    \cup {Header(<<Word("Bearer"), Jwt(sig, iat)>>) :
            sig \in {"server", "forged"}, iat \in 0..now}

Queries ==
    {[country |-> Null, category |-> Null],
     [country |-> "id", category |-> "technology"]}

NoQuery == [country |-> Null, category |-> Null]

\* req.body.textToSummarize: undefined, a string, or a value of another type.
NoBody == [kind |-> "absent", text |-> <<>>]

TextBody(t) == [kind |-> "string", text |-> t]

InputChars == {"a", "b", Space}

ShortBodies ==
    {NoBody, [kind |-> "other", text |-> <<>>]}
    \cup {TextBody(t) : t \in SeqsUpTo(InputChars, MaxTextLen)}

\* A text of n characters; the characters beyond the cap differ from all
\* those before it.
LongText(n) ==
    [i \in 1..n |-> IF i > MaxChars THEN "z" ELSE IF i % 2 = 1 THEN "a" ELSE "b"]

LongBodies ==
    {TextBody(LongText(n)) : n \in (MaxChars - 1)..(MaxChars + MaxExtra)}

\* ------------------------------------------- summarize-batch operation
\* The upper bound N of the batch.
BatchLimit == 5

NoEligibleContent == "NoEligibleContent"

Digits == <<"1", "2", "3", "4", "5", "6", "7", "8", "9">>

\* The i-th article handed to the batch: identified by its url, its text
\* the title followed by the body.
BatchArticle(i) ==
    [url |-> Digits[i], title |-> "Title", image |-> "image",
     text |-> <<"T", Digits[i]>>]

\* A 2xx reply whose first candidate is c.
OkReply(c) ==
    [kind |-> "ok", data |-> <<[candidates |-> <<c>>]>>, status |-> 200,
     statusText |-> "OK", errMessage |-> Null, bodyFinishReason |-> Null,
     code |-> Null, message |-> Null]

\* What the generative backend may answer to the call for article i: a
\* summary naming the article, a safety block without text, a timeout.
BatchOutcomes(i) ==
    {OkReply([content |-> <<[parts |-> <<[text |-> <<<<Digits[i]>>>>]>>]>>,
              finishReason |-> "STOP"]),
     OkReply([content |-> <<>>, finishReason |-> "SAFETY"])}
    \cup GeminiTimeout

NoBatch ==
    [pc |-> "idle", input |-> <<>>, selected |-> <<>>, settled |-> <<>>,
     order |-> <<>>, results |-> <<>>, calls |-> <<>>, error |-> Null]

\* The first N of the input.
SelectFirst(input) == SubSeq(input, 1, Min(Len(input), BatchLimit))

\* One item's result: the article's fields with the summary, or with the
\* failure's message in place of the summary.
ItemResult(article, settled) ==
    [url |-> article.url, title |-> article.title, image |-> article.image,
     summary |-> IF settled.ok THEN settled.summary ELSE settled.message]

\* JoinResults collecting the results in the order the calls completed.
JoinByCompletion(selected, settled, order) ==
    [k \in 1..Len(order) |->
        ItemResult(selected[order[k]], settled[order[k]][1])]

\* The joined results, one per selected article, in input order.
JoinResults(selected, settled, order) ==
    [i \in 1..Len(selected) |-> ItemResult(selected[i], settled[i][1])]

NoResponse ==
    [status |-> 0, error |-> <<>>, summary |-> <<>>, message |-> <<>>,
     totalResults |-> 0, articles |-> <<>>]

ErrorResponse(status, error) == [NoResponse EXCEPT !.status = status, !.error = error]

Init ==
    /\ cfg \in [NEWS_API_KEY : BOOLEAN, GEMINI_API_KEY : BOOLEAN,
                JWT_SECRET : BOOLEAN]
    /\ pc = "idle"
    /\ req = [route |-> Null, auth |-> NoHeader, now |-> 0, query |-> NoQuery,
              body |-> NoBody]
    /\ reqUser = <<>>
    /\ res = NoResponse
    /\ calls = <<>>
    /\ geminiReply = <<>>
    /\ newsReply = <<>>
    /\ batch = NoBatch

\* A request for the articles route arrives.
ReceiveArticles ==
    /\ pc = "idle"
    /\ \E now \in 0..MaxClock :
       \E auth \in AuthHeaders(now), query \in Queries :
          req' = [route |-> ArticlesRoute, auth |-> auth, now |-> now,
                  query |-> query, body |-> NoBody]
    /\ pc' = "auth"
    /\ UNCHANGED <<cfg, reqUser, res, calls, geminiReply, newsReply>>
    /\ UNCHANGED batch

\* A request for the summarize route arrives, its body drawn from Bodies.
ReceiveSummarizeFrom(Bodies) ==
    /\ pc = "idle"
    /\ \E now \in 0..MaxClock :
       \E auth \in AuthHeaders(now), body \in Bodies :
          req' = [route |-> SummarizeRoute, auth |-> auth, now |-> now,
                  query |-> NoQuery, body |-> body]
    /\ pc' = "auth"
    /\ UNCHANGED <<cfg, reqUser, res, calls, geminiReply, newsReply>>
    /\ UNCHANGED batch

ReceiveSummarize == ReceiveSummarizeFrom(ShortBodies)

ReceiveSummarizeLong == ReceiveSummarizeFrom(LongBodies)

\* authHeader && authHeader.split(' ')[1]: absent (a sequence of length 0)
\* or the token.
TokenOf(auth) ==
    IF ~auth.present THEN <<>>
    ELSE IF auth.parts = <<Word("")>> THEN <<Word("")>>
    ELSE IF Len(auth.parts) < 2 THEN <<>>
    ELSE <<auth.parts[2]>>

\* JwtVerifies with the expiry check left out.
JwtVerifiesNoExpiry(token, now) ==
    /\ cfg.JWT_SECRET
    /\ token.raw = "jwt"
    /\ token.sig = "server"

\* jwt.verify(token, JWT_SECRET, ...) finds no error: the token is well
\* formed, signed with the server's secret, and not expired.
JwtVerifies(token, now) ==
    /\ cfg.JWT_SECRET
    /\ token.raw = "jwt"
    /\ token.sig = "server"
    /\ now < token.iat + TokenTtlHours

Payload(token) == [userId |-> token.userId, username |-> token.username]

NoTokenMsg == "Akses ditolak. Token tidak tersedia."
BadTokenMsg == "Token tidak valid atau kedaluwarsa."

\* The middleware of both protected routes.
authenticateToken ==
    /\ pc = "auth"
    /\ LET token == TokenOf(req.auth) IN
       IF Len(token) = 0
       THEN /\ res' = ErrorResponse(401, <<NoTokenMsg>>)
            /\ pc' = "done"
            /\ UNCHANGED reqUser
       ELSE IF ~JwtVerifies(token[1], req.now)
       THEN /\ res' = ErrorResponse(403, <<BadTokenMsg>>)
            /\ pc' = "done"
            /\ UNCHANGED reqUser
       ELSE /\ reqUser' = <<Payload(token[1])>>
            /\ pc' = "handler"
            /\ UNCHANGED res
    /\ UNCHANGED <<cfg, req, calls, geminiReply, newsReply>>
    /\ UNCHANGED batch

\* An async handler's promise rejected outside any try block.  What
\* follows depends on the framework's version: no response at all, or the
\* default error handler's 500.
UnhandledResponses == {NoResponse, ErrorResponse(500, <<"Internal Server Error">>)}

NoNewsKeyMsg == "NEWS_API_KEY tidak dikonfigurasi di server."

\* GET /api/articles up to its await of axios.get.
GetArticles ==
    /\ pc = "handler"
    /\ req.route = ArticlesRoute
    /\ IF ~cfg.NEWS_API_KEY
       THEN /\ res' = ErrorResponse(500, <<NoNewsKeyMsg>>)
            /\ pc' = "done"
            /\ UNCHANGED calls
       ELSE /\ calls' = Append(calls, NewsCall(req.query))
            /\ pc' = "awaitNews"
            /\ UNCHANGED res
    /\ UNCHANGED <<cfg, req, reqUser, geminiReply, newsReply>>
    /\ UNCHANGED batch

\* The news backend answers, or the call fails.
NewsAnswers ==
    /\ pc = "awaitNews"
    /\ newsReply = <<>>
    /\ \E o \in NewsOutcomes : newsReply' = <<o>>
    /\ UNCHANGED <<cfg, pc, req, reqUser, res, calls, geminiReply>>
    /\ UNCHANGED batch

\* GET /api/articles from its await on: the mapping and res.json, or the
\* catch block.
GetArticlesResume ==
    /\ pc = "awaitNews"
    /\ newsReply # <<>>
    /\ LET o == newsReply[1] IN
       IF o.kind = "ok" /\ o.hasArticles
       THEN /\ res' = [NoResponse EXCEPT
                         !.status = 200,
                         !.message = <<"Artikel untuk user: ", reqUser[1].username>>,
                         !.totalResults = o.totalResults,
                         !.articles = ArticlesToDisplay(o.articles)]
            /\ pc' = "done"
       ELSE IF NewsCatchThrows(o)
       THEN /\ res' \in UnhandledResponses
            /\ pc' = "rejected"
       ELSE /\ res' = ErrorResponse(500, <<NewsCatchMessage(o)>>)
            /\ pc' = "done"
    /\ UNCHANGED <<cfg, req, reqUser, calls, geminiReply, newsReply>>
    /\ UNCHANGED batch

EmptyTextMsg == "Teks untuk diringkas tidak boleh kosong."

\* !textToSummarize || textToSummarize.trim() === ""
TextMissing(body) ==
    \/ body.kind = "absent"
    \/ body.kind = "string" /\ (Len(body.text) = 0 \/ Trim(body.text) = <<>>)

\* POST /api/summarize up to summarizeWithGemini's await of axios.post.
PostSummarize ==
    /\ pc = "handler"
    /\ req.route = SummarizeRoute
    /\ IF TextMissing(req.body)
       THEN /\ res' = ErrorResponse(400, <<EmptyTextMsg>>)
            /\ pc' = "done"
            /\ UNCHANGED calls
       ELSE IF req.body.kind = "other"
       THEN /\ res' \in UnhandledResponses
            /\ pc' = "rejected"
            /\ UNCHANGED calls
       ELSE IF ~cfg.GEMINI_API_KEY
       THEN /\ res' = ErrorResponse(500, <<NoKeyMsg>>)
            /\ pc' = "done"
            /\ UNCHANGED calls
       ELSE /\ calls' = Append(calls, GeminiCall(SliceText(req.body.text)))
            /\ pc' = "awaitGemini"
            /\ UNCHANGED res
    /\ UNCHANGED <<cfg, req, reqUser, geminiReply, newsReply>>
    /\ UNCHANGED batch

\* The generative backend answers, or the call fails.
GeminiAnswers ==
    /\ pc = "awaitGemini"
    /\ geminiReply = <<>>
    /\ \E o \in GeminiOutcomes : geminiReply' = <<o>>
    /\ UNCHANGED <<cfg, pc, req, reqUser, res, calls, newsReply>>
    /\ UNCHANGED batch

\* PostSummarizeResume with one retry of a failed call.
PostSummarizeResumeRetry ==
    /\ pc = "awaitGemini"
    /\ geminiReply # <<>>
    /\ LET settled == SummarizeSettle(geminiReply[1]) IN
       IF settled.ok
       THEN /\ res' = [NoResponse EXCEPT !.status = 200,
                                         !.summary = <<settled.summary>>]
            /\ pc' = "done"
            /\ UNCHANGED <<calls, geminiReply>>
       ELSE IF Len(calls) < 2
       THEN /\ calls' = Append(calls, calls[Len(calls)])
            /\ geminiReply' = <<>>
            /\ UNCHANGED <<res, pc>>
       ELSE /\ res' = ErrorResponse(500, settled.message)
            /\ pc' = "done"
            /\ UNCHANGED <<calls, geminiReply>>
    /\ UNCHANGED <<cfg, req, reqUser, newsReply>>
    /\ UNCHANGED batch

\* POST /api/summarize from summarizeWithGemini's await on: res.json with
\* the summary, or the handler's catch block.
PostSummarizeResume ==
    /\ pc = "awaitGemini"
    /\ geminiReply # <<>>
    /\ LET settled == SummarizeSettle(geminiReply[1]) IN
       IF settled.ok
       THEN /\ res' = [NoResponse EXCEPT !.status = 200,
                                         !.summary = <<settled.summary>>]
            /\ pc' = "done"
       ELSE /\ res' = ErrorResponse(500, settled.message)
            /\ pc' = "done"
    /\ UNCHANGED <<cfg, req, reqUser, calls, geminiReply, newsReply>>
    /\ UNCHANGED batch

Next ==
    \/ ReceiveArticles
    \/ ReceiveSummarize
    \/ authenticateToken
    \/ GetArticles
    \/ NewsAnswers
    \/ GetArticlesResume
    \/ PostSummarize
    \/ GeminiAnswers
    \/ PostSummarizeResume

Spec == Init /\ [][Next]_vars

\* The summarize route on inputs around the cap.
NextLong ==
    \/ ReceiveSummarizeLong
    \/ authenticateToken
    \/ PostSummarize
    \/ GeminiAnswers
    \/ PostSummarizeResume

SpecLong == Init /\ [][NextLong]_vars

\* The batch starts: an empty input fails it; otherwise one call per
\* selected article is issued, all before any completes.
BatchStart ==
    /\ batch.pc = "idle"
    /\ \E n \in 0..MaxBatchInput :
       LET input == [i \in 1..n |-> BatchArticle(i)]
           selected == SelectFirst(input)
       IN IF n = 0
          THEN batch' = [NoBatch EXCEPT !.pc = "failed",
                                        !.error = NoEligibleContent]
          ELSE batch' = [NoBatch EXCEPT
                           !.pc = "running",
                           !.input = input,
                           !.selected = selected,
                           !.settled = [i \in 1..Len(selected) |-> <<>>],
                           !.calls = [i \in 1..Len(selected) |->
                                        GeminiCall(SliceText(selected[i].text))]]
    /\ UNCHANGED requestVars

\* The call for one selected article settles, in any order among the
\* pending ones.
ItemSettles ==
    /\ batch.pc = "running"
    /\ \E i \in 1..Len(batch.selected) :
         /\ batch.settled[i] = <<>>
         /\ \E o \in BatchOutcomes(i) :
              batch' = [batch EXCEPT
                          !.settled[i] = <<SummarizeSettle(o)>>,
                          !.order = Append(@, i)]
    /\ UNCHANGED requestVars

\* Every call has settled: the batch returns the joined results.
BatchJoin ==
    /\ batch.pc = "running"
    /\ \A i \in 1..Len(batch.selected) : batch.settled[i] # <<>>
    /\ batch' = [batch EXCEPT
                   !.pc = "done",
                   !.results = JoinResults(batch.selected, batch.settled,
                                           batch.order)]
    /\ UNCHANGED requestVars

NextBatch ==
    \/ BatchStart
    \/ ItemSettles
    \/ BatchJoin

\* The batch runs with every key configured.
InitBatch ==
    /\ Init
    /\ cfg = [NEWS_API_KEY |-> TRUE, GEMINI_API_KEY |-> TRUE, JWT_SECRET |-> TRUE]

SpecBatch == InitBatch /\ [][NextBatch]_vars

\* ------------------------------------------------------------ claims
IsSummarize == req.route = SummarizeRoute

IsArticles == req.route = ArticlesRoute

\* Where the text starts in an outbound prompt: after the template's
\* prefix and opening quote.
TextOffset == Len(PromptPrefix) + 1

\* How many characters of text an outbound prompt carries between the
\* template's quotes.
SentLen(call) == Len(call.prompt) - TextOffset - 1

\* C1: every call to the generative backend carries the first 20,000
\* characters of the input text, the whole input when it is no longer than
\* that, and no character from beyond position 20,000.
C1_PayloadIsFirstMaxChars ==
    \A k \in 1..Len(calls) :
        calls[k].api = "gemini" =>
            /\ SentLen(calls[k]) <= MaxChars
            /\ Len(req.body.text) <= MaxChars =>
                   SentLen(calls[k]) = Len(req.body.text)
            /\ Len(req.body.text) > MaxChars => SentLen(calls[k]) = MaxChars
            /\ SubSeq(calls[k].prompt, TextOffset + 1,
                      TextOffset + SentLen(calls[k]))
                   = SubSeq(req.body.text, 1, SentLen(calls[k]))
            /\ calls[k].prompt[TextOffset + SentLen(calls[k])] # "z"

\* A text longer than the cap was sent on.
C1_Witness ==
    /\ IsSummarize
    /\ Len(req.body.text) > MaxChars
    /\ Len(calls) = 1
    /\ SentLen(calls[1]) = MaxChars
    /\ pc = "done"

\* C2: a summarize request that ends in success never carries the empty
\* string as its summary, whatever the generative backend replied.
C2_NeverEmptySummary ==
    (IsSummarize /\ pc = "done" /\ res.status = 200) =>
        (Len(res.summary) = 1 /\ Len(res.summary[1]) > 0)

\* C3: when the first candidate's finishReason is SAFETY the request fails
\* with the safety-block message, whatever else the candidate carries.
C3_SafetyAlwaysBlocked ==
    (IsSummarize /\ pc = "done" /\ geminiReply # <<>>
     /\ geminiReply[1].kind = "ok"
     /\ FinishReasonOf(geminiReply[1].data) = "SAFETY") =>
        (res.status = 500 /\ res.error = <<WrapPrefix, SafetyMsg>>)

\* C4: a 429 from the generative backend ends the request with the quota
\* message, whatever the 429's body says.
C4_RateLimitedOn429 ==
    (IsSummarize /\ pc = "done" /\ geminiReply # <<>>
     /\ geminiReply[1].kind = "http" /\ geminiReply[1].status = 429) =>
        (res.status = 500 /\ res.error = <<WrapPrefix, QuotaMsg>>)

\* A 429 whose body carries its own error message was answered.
C4_Witness ==
    /\ IsSummarize
    /\ pc = "done"
    /\ geminiReply # <<>>
    /\ geminiReply[1].kind = "http"
    /\ geminiReply[1].status = 429
    /\ geminiReply[1].errMessage = "upstream message"
    /\ res.error = <<WrapPrefix, QuotaMsg>>

\* The request carries a token: a second part of the Authorization header,
\* or the empty string of an empty header.
HasToken == req.auth.present /\ (Len(req.auth.parts) >= 2 \/ req.auth.parts = <<Word("")>>)

\* The presented token is signed by the server and has not expired at the
\* time of the request.
TokenGood ==
    /\ HasToken
    /\ Len(req.auth.parts) >= 2
    /\ cfg.JWT_SECRET
    /\ req.auth.parts[2].raw = "jwt"
    /\ req.auth.parts[2].sig = "server"
    /\ req.auth.parts[2].iat + TokenTtlHours > req.now

\* C5: on both protected routes no outbound call is issued and no success
\* response is sent unless the token's signature and expiry were verified
\* earlier in the request; a request without a token ends in 401 and one
\* with an invalid or expired token in 403.
C5_VerifiedBeforeAnything ==
    /\ (Len(calls) > 0 \/ res.status = 200 \/ pc \in {"handler", "awaitNews", "awaitGemini"}) =>
          (TokenGood /\ reqUser = <<[userId |-> req.auth.parts[2].userId,
                                     username |-> req.auth.parts[2].username]>>)
    /\ (pc \in {"done", "rejected"} /\ ~HasToken) =>
          (res.status = 401 /\ calls = <<>> /\ reqUser = <<>>)
    /\ (pc \in {"done", "rejected"} /\ HasToken /\ ~TokenGood) =>
          (res.status = 403 /\ calls = <<>> /\ reqUser = <<>>)

\* A verified request reached its backend and was answered with success.
C5_Witness ==
    /\ pc = "done"
    /\ res.status = 200
    /\ Len(calls) = 1
    /\ TokenGood

\* C6: the batch returns one result per selected article at the article's
\* position, whatever the outcomes and the order of completion; a failed
\* item carries its failure's message and the others their summaries.
C6_OneResultPerArticleInOrder ==
    batch.pc = "done" =>
        /\ Len(batch.results) = Len(batch.selected)
        /\ Len(batch.results) = Min(Len(batch.input), BatchLimit)
        /\ \A i \in 1..Len(batch.selected) :
             /\ batch.results[i].url = batch.input[i].url
             /\ batch.settled[i][1].ok =>
                    batch.results[i].summary = <<Digits[i]>>
             /\ ~batch.settled[i][1].ok =>
                    batch.results[i].summary = batch.settled[i][1].message

\* Three articles, the second timed out and completed first, the others
\* summarized.
C6_Witness ==
    /\ batch.pc = "done"
    /\ Len(batch.selected) = 3
    /\ batch.order = <<2, 3, 1>>
    /\ batch.results[2].summary = <<WrapPrefix, TimeoutMsg>>
    /\ batch.results[1].summary = <<"1">>
    /\ batch.results[3].summary = <<"3">>

\* C7: the article list of a successful reply holds no article that has
\* neither a title nor a non-empty content or description.
C7_NoEmptyArticle ==
    (IsArticles /\ pc = "done" /\ res.status = 200) =>
        \A i \in 1..Len(res.articles) :
            ~(/\ Falsy(res.articles[i].title)
              /\ Falsy(res.articles[i].content)
              /\ Falsy(res.articles[i].description))

\* C8: when the news backend rejects the fetch with a 4xx or 5xx status the
\* failure the route reports carries that status; a timeout and an
\* unreachable backend are reported apart from a rejection.
C8_UpstreamStatusPreserved ==
    (IsArticles /\ pc = "done" /\ newsReply # <<>>) =>
        /\ newsReply[1].kind = "http" => res.status = newsReply[1].status
        /\ newsReply[1].kind \in {"timeout", "network"} =>
               res.error # <<GenericNewsMsg>>

\* C9: a failed call that carries an HTTP error status and a content-level
\* signal is reported as the content-level kind.
C9_ContentSignalFirst ==
    (IsSummarize /\ pc = "done" /\ geminiReply # <<>>
     /\ geminiReply[1].kind = "http"
     /\ geminiReply[1].bodyFinishReason = "SAFETY") =>
        res.error = <<WrapPrefix, SafetyMsg>>

\* The call to the generative backend failed: an error status, a timeout,
\* no connection, or a reply without text.
GeminiFailed ==
    /\ geminiReply # <<>>
    /\ \/ geminiReply[1].kind # "ok"
       \/ TextOf(geminiReply[1].data) = <<>>
       \/ TextOf(geminiReply[1].data) = << <<>> >>

\* C10: a summarize request issues at most one call to the generative
\* backend, and once that call has failed the request ends in an error
\* response with no further call.
C10_NoRetry ==
    /\ Len(calls) <= 1
    /\ Len(calls) = 0 => geminiReply = <<>>
    /\ (IsSummarize /\ GeminiFailed) => pc \in {"awaitGemini", "done"}
    /\ (IsSummarize /\ GeminiFailed /\ pc = "done") =>
          (res.status = 500 /\ res.error # <<>> /\ Len(calls) = 1)

\* A timed-out call was answered with an error after a single call.
C10_Witness ==
    /\ IsSummarize
    /\ pc = "done"
    /\ geminiReply # <<>>
    /\ geminiReply[1].kind = "timeout"
    /\ res.status = 500
    /\ Len(calls) = 1

====
